---- MODULE Spec2Model ----
(***************************************************************************)
(* Model of the duplicate-detection engine of photo-share                  *)
(* (src/lambda/duplicate_detector.py): the difference hash, the Hamming    *)
(* distance on hex strings, and the three operations                       *)
(* find_duplicates_in_album, find_duplicates_across_albums and             *)
(* check_duplicate_before_upload, run against a metadata table and an      *)
(* object store chosen in Init; and of the rate limiter                    *)
(* (src/lambda/rate_limiter.py) with the rate limiting block of            *)
(* lambda_handler (src/lambda/index.py).                                   *)
(*                                                                         *)
(* Specifications: Spec and ScanSpec run one operation of the detector,    *)
(* PairSpec interleaves two invocations of one operation, HashSpec calls   *)
(* the hash functions on their own, RateSpec runs concurrent invocations   *)
(* of the handler against the rate limiter.                                *)
(*                                                                         *)
(* Strings that the code indexes (hashes, filenames) are sequences of      *)
(* one-character strings.  Python integers are unbounded, so int(s, 2)     *)
(* and int(s, 16) are kept as bit sequences without leading zeros.         *)
(***************************************************************************)
EXTENDS Integers, Sequences, FiniteSets, TLC

VARIABLES table, pc, op, photos, photo_hashes, idx, aidx, duplicate_groups,
          processed, matches, new_hashes, result, fetched,
          call, ret, other, interleaved,
          now, ticks, rate_limit_table, abuse_table, handler, sent

vars == <<table, pc, op, photos, photo_hashes, idx, aidx, duplicate_groups,
          processed, matches, new_hashes, result, fetched, call, ret, other,
          interleaved, now, ticks, rate_limit_table, abuse_table, handler,
          sent>>

\* the state that belongs neither to the running invocation of an operation
\* nor to a function called on its own
\* the state of the rate limiter and of the request handler in front of it
limiter == <<now, ticks, rate_limit_table, abuse_table, handler, sent>>

apart == <<other, interleaved, limiter>>

\* the state the running invocation of an operation leaves alone
aside == <<call, ret, apart>>

---------------------------------------------------------------------------
(* Bounds of the model *)

\* largest number of records of a table that holds plain visible photos only
MaxItems == 4

\* largest number of plain visible photos beside the defective record of a
\* table that holds one
MaxBeside == 2

\* longest hash string handed to hamming_distance on its own
MaxHashLen == 4

---------------------------------------------------------------------------
(* Program constants *)

SIMILARITY_THRESHOLD == 10

\* default hash_size of compute_average_hash / compute_difference_hash
hash_size == 8

\* the 64 of "100 - (distance * 100 // 64)"
TotalBits == 64

\* float('inf'), returned by hamming_distance for strings of unequal length;
\* larger than every distance between strings the model builds
Inf == 1000000

\* the ids of the user's albums, in the order the USER# query lists them
AlbumIds == <<1, 2>>

---------------------------------------------------------------------------
(* Strings and numbers *)

HexChars == <<"0", "1", "2", "3", "4", "5", "6", "7",
              "8", "9", "a", "b", "c", "d", "e", "f">>

\* the values of the hex characters
HexDigits ==
    "0" :> 0 @@ "1" :> 1 @@ "2" :> 2 @@ "3" :> 3 @@ "4" :> 4 @@ "5" :> 5 @@
    "6" :> 6 @@ "7" :> 7 @@ "8" :> 8 @@ "9" :> 9 @@ "a" :> 10 @@ "b" :> 11 @@
    "c" :> 12 @@ "d" :> 13 @@ "e" :> 14 @@ "f" :> 15

\* value of one hex character
HexVal(c) == HexDigits[c]

\* the four bits of a value 0..15, most significant first
NibbleBits(v) == <<(v \div 8) % 2, (v \div 4) % 2, (v \div 2) % 2, v % 2>>

\* an integer has no leading zeros: int(...) forgets them
StripZeros(bits) ==
    LET ones == { k \in 1..Len(bits) : bits[k] # 0 }
        first == CHOOSE k \in ones : \A m \in ones : k <= m
    IN  IF ones = {} THEN <<>> ELSE SubSeq(bits, first, Len(bits))

\* Zfill that pads nothing
ZfillNone(s, width, zero) == s

\* str.zfill(width): left-pad with the zero character, never truncate
Zfill(s, width, zero) ==
    IF Len(s) >= width THEN s
    ELSE [k \in 1..(width - Len(s)) |-> zero] \o s

RECURSIVE HexToBits(_)
\* the bits of a hex string, four per character
HexToBits(h) ==
    IF h = <<>> THEN <<>>
    ELSE NibbleBits(HexVal(h[1])) \o HexToBits(Tail(h))

\* bin(int(h, 16))[2:]
BinOfHex(h) ==
    LET n == StripZeros(HexToBits(h))
    IN  IF n = <<>> THEN <<0>> ELSE n

\* the hex characters of a bit string whose length is a multiple of four
NibblesToHex(bits) ==
    [k \in 1..(Len(bits) \div 4) |->
        HexChars[8 * bits[4 * k - 3] + 4 * bits[4 * k - 2]
                 + 2 * bits[4 * k - 1] + bits[4 * k] + 1]]

\* hex(int(bits, 2))[2:]
HexOfBits(bits) ==
    LET n == StripZeros(bits)
        padded == Zfill(n, 4 * ((Len(n) + 3) \div 4), 0)
    IN  IF n = <<>> THEN <<"0">> ELSE NibblesToHex(padded)

\* sum(b1 != b2 for b1, b2 in zip(bin1, bin2))
CountDiff(bin1, bin2) ==
    LET shorter == IF Len(bin1) < Len(bin2) THEN Len(bin1) ELSE Len(bin2)
    IN  Cardinality({ k \in 1..shorter : bin1[k] # bin2[k] })

\* hamming_distance without the test of the lengths
hamming_distance_unchecked(hash1, hash2) ==
    LET bin1 == Zfill(BinOfHex(hash1), Len(hash1) * 4, 0)
        bin2 == Zfill(BinOfHex(hash2), Len(hash2) * 4, 0)
    IN  CountDiff(bin1, bin2)

\* (int('', 16) raises: the model never compares two empty strings)
hamming_distance(hash1, hash2) ==
    IF Len(hash1) # Len(hash2) THEN Inf
    ELSE LET bin1 == Zfill(BinOfHex(hash1), Len(hash1) * 4, 0)
             bin2 == Zfill(BinOfHex(hash2), Len(hash2) * 4, 0)
         IN  CountDiff(bin1, bin2)

RECURSIVE SumTo(_, _)
\* sum(pixels[0:k])
SumTo(pixels, k) == IF k = 0 THEN 0 ELSE pixels[k] + SumTo(pixels, k - 1)

\* pixels: the luminance values of the image resized to size x size, row by
\* row; "p >= sum(pixels) / len(pixels)" is compared without the division
compute_average_hash(pixels, size) ==
    LET total == SumTo(pixels, Len(pixels))
        bits == <<>> \o [k \in 1..Len(pixels) |->
                            IF pixels[k] * Len(pixels) >= total THEN 1 ELSE 0]
    IN  Zfill(HexOfBits(bits), (size * size) \div 4, "0")

\* pixels: the luminance values of the image resized to (size + 1) x size,
\* row by row (what list(img.getdata()) returns after resize and convert)
compute_difference_hash(pixels, size) ==
    LET bit(k) == LET row == (k - 1) \div size
                      col == (k - 1) % size
                      left_pixel == pixels[row * (size + 1) + col + 1]
                      right_pixel == pixels[row * (size + 1) + col + 2]
                  IN  IF left_pixel > right_pixel THEN 1 ELSE 0
        \* bits = [] and one bits.append(...) per comparison
        bits == <<>> \o [k \in 1..(size * size) |-> bit(k)]
    IN  Zfill(HexOfBits(bits), (size * size) \div 4, "0")

---------------------------------------------------------------------------
(* The object store: byte streams and what they decode to *)

\* one row of nine pixels that falls from left to right over its first
\* "fall" steps and is flat after them
GridRow(fall) ==
    [c \in 1..(hash_size + 1) |-> IF c - 1 < fall THEN fall - (c - 1) ELSE 0]

\* the 9 x 8 luminance grid whose first n left/right comparisons are
\* "left > right" and whose other comparisons are not (n <= 16):
\* rows one and two fall from left to right as long as needed
Grid(n) ==
    GridRow(IF n > hash_size THEN hash_size ELSE n)
    \o GridRow(IF n > hash_size THEN n - hash_size ELSE 0)
    \o [k \in 1..((hash_size + 1) * (hash_size - 2)) |-> 0]

\* The byte streams of the store, named by their content.  "flat" decodes
\* to a picture without gradient, "near" to one whose difference hash is 10
\* bits away from it, "far" to one 11 bits away (one bit away from "near").
Bodies == {"flat", "near", "far"}

\* the resized luminance grid a byte stream decodes to
PixelsOf(data) ==
    IF data = "near" THEN Grid(10)
    ELSE IF data = "far" THEN Grid(11)
    ELSE Grid(0)

\* the byte stream every record that is not a plain visible photo points to
DefectBody == "flat"

\* the stored object whose download or Image.open raises
Broken == "broken"

\* hashlib.md5(data).hexdigest(): a digest, one per byte stream
compute_file_hash(data) == <<"md5", data>>

\* aHash and fileSize are computed by the code but read by no operation;
\* the model keeps the two hashes the comparisons use
compute_image_hashes(image, image_data) ==
    [dHash |-> compute_difference_hash(image, hash_size),
     fileHash |-> compute_file_hash(image_data)]

\* get_image_from_s3 without the try/except: every object is handed on
get_image_from_s3_unguarded(stored) ==
    [ok |-> TRUE, image |-> PixelsOf(stored), image_data |-> stored]

\* get_image_from_s3(key), given the object the key names: the decoded
\* image and the bytes; ok is FALSE where the code returns (None, None)
get_image_from_s3(stored) ==
    IF stored = Broken
    THEN [ok |-> FALSE, image |-> <<>>, image_data |-> stored]
    ELSE [ok |-> TRUE, image |-> PixelsOf(stored), image_data |-> stored]

---------------------------------------------------------------------------
(* The metadata table *)

JpgName == <<"a", ".", "j", "p", "g">>
DotName == <<".", "D", "S">>

\* str.startswith('.')
StartsWithDot(filename) == Len(filename) > 0 /\ filename[1] = "."

\* a visible photo record with both keys whose object is body b
PlainItem(b) ==
    [skPrefix |-> "PHOTO#", hidden |-> FALSE, filename |-> JpgName,
     s3Key |-> TRUE, thumbnailKey |-> TRUE, stored |-> b]

\* the records that differ from a plain visible photo in one respect
DefectItems ==
    { [PlainItem(DefectBody) EXCEPT !.hidden = TRUE],
      [PlainItem(DefectBody) EXCEPT !.filename = DotName],
      [PlainItem(DefectBody) EXCEPT !.skPrefix = "META#"],
      [PlainItem(DefectBody) EXCEPT !.s3Key = FALSE, !.thumbnailKey = FALSE],
      [PlainItem(DefectBody) EXCEPT !.s3Key = FALSE],
      [PlainItem(DefectBody) EXCEPT !.stored = Broken] }

PlainItems == { PlainItem(b) : b \in Bodies }

\* an absent attribute (item.get(...) returns None)
None == <<>>

\* record i of the table: the pool record with its photo id (its sort key)
\* and the keys of its objects; "stored" is the object those keys name
WithId(r, i) ==
    [photoId |-> i, skPrefix |-> r.skPrefix, hidden |-> r.hidden,
     filename |-> r.filename,
     s3Key |-> IF r.s3Key THEN <<"photos", i>> ELSE None,
     thumbnailKey |-> IF r.thumbnailKey THEN <<"thumbs", i>> ELSE None,
     stored |-> r.stored]

\* the listings of n plain visible photos
PlainListings(n) == [1..n -> PlainItems]

\* the plain photos listed beside a defective record: their bytes are those
\* of the defective record's object, or 10 bits away from them
BesideItems == { PlainItem(b) : b \in {DefectBody, "near"} }

\* the listings of n records of which exactly one, at position d, is defective
MixedListings(n) ==
    UNION { { f \in [1..n -> BesideItems \cup DefectItems] :
                \A i \in 1..n : (f[i] \in DefectItems) <=> (i = d) }
            : d \in 1..n }

\* the table that holds listing f: its first "split" records in the first
\* album, the others in the second, ids distinct over the whole table
MakeTable(f, split) ==
    [a \in 1..Len(AlbumIds) |->
        IF a = 1 THEN [i \in 1..split |-> WithId(f[i], i)]
        ELSE [i \in 1..(Len(f) - split) |-> WithId(f[split + i], split + i)]]

---------------------------------------------------------------------------
(* Helpers shared by the operations *)

\* the dict d with d[k] = v (a new dict, as in {**d, k: v})
Put(d, k, v) == [x \in DOMAIN d \cup {k} |-> IF x = k THEN v ELSE d[x]]

\* the object a key of the store names
ObjectAt(key) ==
    LET owner == CHOOSE it \in UNION { {table[a][i] : i \in DOMAIN table[a]}
                                       : a \in DOMAIN table } :
                     it.photoId = key[2]
    IN  owner.stored

\* photo.get('thumbnailKey') or photo.get('s3Key')
KeyToUse(photo) ==
    IF photo.thumbnailKey # None THEN photo.thumbnailKey ELSE photo.s3Key

\* Similarity without the scaling to 64 bits
SimilarityUnscaled(distance) == 100 - distance

\* 100 - (distance * 100 // 64)
Similarity(distance) == 100 - ((distance * 100) \div TotalBits)

RECURSIVE SumCountsWhole(_)
\* SumCounts that adds g['count'] instead of g['count'] - 1
SumCountsWhole(groups) ==
    IF groups = <<>> THEN 0
    ELSE groups[1].count + SumCountsWhole(Tail(groups))

RECURSIVE SumCounts(_)
\* sum(g['count'] - 1 for g in duplicate_groups)
SumCounts(groups) ==
    IF groups = <<>> THEN 0
    ELSE (groups[1].count - 1) + SumCounts(Tail(groups))

NoOp == [name |-> "none", album |-> 0, candidate |-> "none"]
NoHashes == [dHash |-> <<>>, fileHash |-> <<>>]
NoResult == [pending |-> TRUE]

\* no function is called on its own; nothing has been returned
NoCall == [fn |-> "none"]
NoReturn == [done |-> FALSE]

\* no second invocation
Nobody == [pc |-> "none"]

\* no request reaches the handler: the clock stands and both tables are empty
NoTraffic ==
    /\ now = 0
    /\ ticks = 0
    /\ rate_limit_table = <<>>
    /\ abuse_table = <<>>
    /\ handler = <<>>
    /\ sent = {}

\* the locals of an invocation that has not started
Idle ==
    /\ pc = "idle"
    /\ op = NoOp
    /\ photos = <<>>
    /\ photo_hashes = <<>>
    /\ idx = 0
    /\ aidx = 0
    /\ duplicate_groups = <<>>
    /\ processed = {}
    /\ matches = <<>>
    /\ new_hashes = NoHashes
    /\ result = NoResult
    /\ fetched = {}

Init ==
    /\ \/ \E n \in 0..MaxItems : \E split \in 0..n : \E f \in PlainListings(n) :
              table = MakeTable(f, split)
       \/ \E n \in 1..(MaxBeside + 1) : \E split \in 0..n : \E f \in MixedListings(n) :
              table = MakeTable(f, split)
    /\ Idle
    /\ call = NoCall
    /\ ret = NoReturn
    /\ other = Nobody
    /\ interleaved = FALSE
    /\ NoTraffic

---------------------------------------------------------------------------
(* find_duplicates_in_album *)

\* the three "continue" tests of the listing loop
AlbumKeeps(item) ==
    /\ item.skPrefix = "PHOTO#"
    /\ ~item.hidden
    /\ ~StartsWithDot(item.filename)

\* AlbumTooFew with the test "len(photos) < 1"
AlbumTooFewNone(n) == n < 1

\* "if len(photos) < 2": nothing to compare
AlbumTooFew(n) == n < 2

\* AlbumEmits with the test "len(group) > 0"
AlbumEmitsSingletons(group) == Len(group) > 0

\* "if len(group) > 1": the group is emitted
AlbumEmits(group) == Len(group) > 1

AlbumPhoto(item) ==
    [id |-> item.photoId, s3Key |-> item.s3Key,
     thumbnailKey |-> item.thumbnailKey, filename |-> item.filename]

\* query the album, keep the visible photos, return early below two
AlbumList(a) ==
    /\ pc = "idle"
    /\ LET kept == SelectSeq(table[a], AlbumKeeps)
           listed == [k \in 1..Len(kept) |-> AlbumPhoto(kept[k])]
       IN  /\ photos' = listed
           /\ IF AlbumTooFew(Len(listed))
              THEN /\ result' = [duplicateGroups |-> <<>>,
                                 totalPhotos |-> Len(listed),
                                 duplicatesFound |-> 0]
                   /\ pc' = "done"
              ELSE /\ result' = result
                   /\ pc' = "album_hash"
    /\ op' = [name |-> "album", album |-> a, candidate |-> "none"]
    /\ idx' = 1
    /\ UNCHANGED <<table, photo_hashes, aidx, duplicate_groups, processed,
                   matches, new_hashes, fetched>>
    /\ UNCHANGED aside

\* one round of "for photo in photos": download and fingerprint
AlbumHash ==
    /\ pc = "album_hash"
    /\ idx <= Len(photos)
    /\ LET photo == photos[idx]
       IN  IF photo.s3Key = None
           THEN UNCHANGED <<photo_hashes, fetched>>
           ELSE LET got == get_image_from_s3(ObjectAt(KeyToUse(photo)))
                IN  /\ fetched' = fetched \cup {photo.id}
                    /\ photo_hashes' =
                         IF got.ok
                         THEN Append(photo_hashes,
                                 LET hashes == compute_image_hashes(got.image, got.image_data)
                                 IN  Put(Put(photo, "dHash", hashes.dHash),
                                         "fileHash", hashes.fileHash))
                         ELSE photo_hashes
    /\ idx' = idx + 1
    /\ UNCHANGED <<table, pc, op, photos, aidx, duplicate_groups, processed,
                   matches, new_hashes, result>>
    /\ UNCHANGED aside

\* the hashing loop is over: start comparing
AlbumHashDone ==
    /\ pc = "album_hash"
    /\ idx > Len(photos)
    /\ pc' = "album_group"
    /\ idx' = 1
    /\ UNCHANGED <<table, op, photos, photo_hashes, aidx, duplicate_groups,
                   processed, matches, new_hashes, result, fetched>>
    /\ UNCHANGED aside

RECURSIVE AlbumInnerNoMark(_, _, _, _, _)
\* AlbumInner without "processed.add(photo2['id'])" in the perceptual branch
AlbumInnerNoMark(photo1, hashes, j, group, proc) ==
    IF j > Len(hashes) THEN [group |-> group, processed |-> proc]
    ELSE LET photo2 == hashes[j]
             distance == hamming_distance(photo1.dHash, photo2.dHash)
         IN  IF photo2.id \in proc
             THEN AlbumInnerNoMark(photo1, hashes, j + 1, group, proc)
             ELSE IF photo1.fileHash = photo2.fileHash
             THEN AlbumInnerNoMark(photo1, hashes, j + 1, Append(group, photo2),
                                   proc \cup {photo2.id})
             ELSE IF distance <= SIMILARITY_THRESHOLD
             THEN AlbumInnerNoMark(photo1, hashes, j + 1,
                                   Append(group, Put(Put(photo2, "similarity", Similarity(distance)),
                                                     "exactMatch", FALSE)),
                                   proc)
             ELSE AlbumInnerNoMark(photo1, hashes, j + 1, group, proc)

RECURSIVE AlbumInnerBreak(_, _, _, _, _)
\* AlbumInner with "break" in place of "continue" after an exact match
AlbumInnerBreak(photo1, hashes, j, group, proc) ==
    IF j > Len(hashes) THEN [group |-> group, processed |-> proc]
    ELSE LET photo2 == hashes[j]
             distance == hamming_distance(photo1.dHash, photo2.dHash)
         IN  IF photo2.id \in proc
             THEN AlbumInnerBreak(photo1, hashes, j + 1, group, proc)
             ELSE IF photo1.fileHash = photo2.fileHash
             THEN [group |-> Append(group, photo2), processed |-> proc \cup {photo2.id}]
             ELSE IF distance <= SIMILARITY_THRESHOLD
             THEN AlbumInnerBreak(photo1, hashes, j + 1,
                                  Append(group, Put(Put(photo2, "similarity", Similarity(distance)),
                                                    "exactMatch", FALSE)),
                                  proc \cup {photo2.id})
             ELSE AlbumInnerBreak(photo1, hashes, j + 1, group, proc)

RECURSIVE AlbumInnerChained(_, _, _, _, _)
\* AlbumInner that compares photo2 with the member added last instead of
\* with photo1
AlbumInnerChained(photo1, hashes, j, group, proc) ==
    IF j > Len(hashes) THEN [group |-> group, processed |-> proc]
    ELSE LET photo2 == hashes[j]
             last == group[Len(group)]
             distance == hamming_distance(last.dHash, photo2.dHash)
         IN  IF photo2.id \in proc
             THEN AlbumInnerChained(photo1, hashes, j + 1, group, proc)
             ELSE IF last.fileHash = photo2.fileHash
             THEN AlbumInnerChained(photo1, hashes, j + 1, Append(group, photo2),
                                    proc \cup {photo2.id})
             ELSE IF distance <= SIMILARITY_THRESHOLD
             THEN AlbumInnerChained(photo1, hashes, j + 1,
                                    Append(group, Put(Put(photo2, "similarity", Similarity(distance)),
                                                      "exactMatch", FALSE)),
                                    proc \cup {photo2.id})
             ELSE AlbumInnerChained(photo1, hashes, j + 1, group, proc)

RECURSIVE AlbumInnerStrict(_, _, _, _, _)
\* AlbumInner with the test "distance < SIMILARITY_THRESHOLD"
AlbumInnerStrict(photo1, hashes, j, group, proc) ==
    IF j > Len(hashes) THEN [group |-> group, processed |-> proc]
    ELSE LET photo2 == hashes[j]
             distance == hamming_distance(photo1.dHash, photo2.dHash)
         IN  IF photo2.id \in proc
             THEN AlbumInnerStrict(photo1, hashes, j + 1, group, proc)
             ELSE IF photo1.fileHash = photo2.fileHash
             THEN AlbumInnerStrict(photo1, hashes, j + 1, Append(group, photo2),
                                   proc \cup {photo2.id})
             ELSE IF distance < SIMILARITY_THRESHOLD
             THEN AlbumInnerStrict(photo1, hashes, j + 1,
                                   Append(group, Put(Put(photo2, "similarity", Similarity(distance)),
                                                     "exactMatch", FALSE)),
                                   proc \cup {photo2.id})
             ELSE AlbumInnerStrict(photo1, hashes, j + 1, group, proc)

RECURSIVE AlbumInner(_, _, _, _, _)
\* "for j, photo2 in enumerate(photo_hashes[i+1:], i+1)": the group and the
\* processed set after the rounds j .. len(photo_hashes)
AlbumInner(photo1, hashes, j, group, proc) ==
    IF j > Len(hashes) THEN [group |-> group, processed |-> proc]
    ELSE LET photo2 == hashes[j]
             distance == hamming_distance(photo1.dHash, photo2.dHash)
         IN  IF photo2.id \in proc
             THEN AlbumInner(photo1, hashes, j + 1, group, proc)
             ELSE IF photo1.fileHash = photo2.fileHash
             THEN AlbumInner(photo1, hashes, j + 1, Append(group, photo2),
                             proc \cup {photo2.id})
             ELSE IF distance <= SIMILARITY_THRESHOLD
             THEN AlbumInner(photo1, hashes, j + 1,
                             Append(group, Put(Put(photo2, "similarity", Similarity(distance)),
                                               "exactMatch", FALSE)),
                             proc \cup {photo2.id})
             ELSE AlbumInner(photo1, hashes, j + 1, group, proc)

\* one round of "for i, photo1 in enumerate(photo_hashes)"
AlbumGroup ==
    /\ pc = "album_group"
    /\ idx <= Len(photo_hashes)
    /\ LET photo1 == photo_hashes[idx]
           inner == AlbumInner(photo1, photo_hashes, idx + 1, <<photo1>>, processed)
           first == Put(Put(photo1, "similarity", 100), "exactMatch", TRUE)
           group == [inner.group EXCEPT ![1] = first]
       IN  IF photo1.id \in processed
           THEN UNCHANGED <<photo_hashes, duplicate_groups, processed>>
           ELSE IF AlbumEmits(inner.group)
           THEN /\ duplicate_groups' =
                     Append(duplicate_groups, [photos |-> group, count |-> Len(group)])
                /\ processed' = inner.processed \cup {photo1.id}
                \* group[0] is photo1 itself: the marks land in photo_hashes too
                /\ photo_hashes' = [photo_hashes EXCEPT ![idx] = first]
           ELSE /\ processed' = inner.processed
                /\ UNCHANGED <<photo_hashes, duplicate_groups>>
    /\ idx' = idx + 1
    /\ UNCHANGED <<table, pc, op, photos, aidx, matches, new_hashes, result,
                   fetched>>
    /\ UNCHANGED aside

\* the final return
AlbumReturn ==
    /\ pc = "album_group"
    /\ idx > Len(photo_hashes)
    /\ result' = [duplicateGroups |-> duplicate_groups,
                  totalPhotos |-> Len(photos),
                  duplicatesFound |-> SumCounts(duplicate_groups),
                  groupsFound |-> Len(duplicate_groups)]
    /\ pc' = "done"
    /\ UNCHANGED <<table, op, photos, photo_hashes, idx, aidx,
                   duplicate_groups, processed, matches, new_hashes, fetched>>
    /\ UNCHANGED aside

---------------------------------------------------------------------------
(* find_duplicates_across_albums *)

\* AcrossKeeps without the test of item.get('hidden')
AcrossKeepsHidden(item) ==
    /\ item.skPrefix = "PHOTO#"
    /\ ~StartsWithDot(item.filename)

\* the three "continue" tests of the listing loop
AcrossKeeps(item) ==
    /\ item.skPrefix = "PHOTO#"
    /\ ~item.hidden
    /\ ~StartsWithDot(item.filename)

\* AcrossTooFew with the test "len(all_photo_hashes) < 3"
AcrossTooFewThree(n) == n < 3

\* "if len(all_photo_hashes) < 2"
AcrossTooFew(n) == n < 2

\* AcrossEmits with the test "len(group) > 0"
AcrossEmitsSingletons(group) == Len(group) > 0

\* "if len(group) > 1"
AcrossEmits(group) == Len(group) > 1

AcrossPhoto(item, album) ==
    [id |-> item.photoId, albumId |-> album, s3Key |-> item.s3Key,
     thumbnailKey |-> item.thumbnailKey, filename |-> item.filename]

\* query the user's albums
AcrossList ==
    /\ pc = "idle"
    /\ op' = [name |-> "across", album |-> 0, candidate |-> "none"]
    /\ pc' = "across_collect"
    /\ aidx' = 1
    /\ idx' = 1
    /\ UNCHANGED <<table, photos, photo_hashes, duplicate_groups, processed,
                   matches, new_hashes, result, fetched>>
    /\ UNCHANGED aside

\* one round of "for item in album_response['Items']": filter, download
\* and fingerprint
AcrossCollect ==
    /\ pc = "across_collect"
    /\ aidx <= Len(AlbumIds)
    /\ idx <= Len(table[aidx])
    /\ LET item == table[aidx][idx]
           photo == AcrossPhoto(item, AlbumIds[aidx])
           key_to_use == KeyToUse(photo)
       IN  IF ~AcrossKeeps(item) \/ key_to_use = None
           THEN UNCHANGED <<photo_hashes, fetched>>
           ELSE LET got == get_image_from_s3(ObjectAt(key_to_use))
                IN  /\ fetched' = fetched \cup {photo.id}
                    /\ photo_hashes' =
                         IF got.ok
                         THEN Append(photo_hashes,
                                 LET hashes == compute_image_hashes(got.image, got.image_data)
                                 IN  Put(Put(photo, "dHash", hashes.dHash),
                                         "fileHash", hashes.fileHash))
                         ELSE photo_hashes
    /\ idx' = idx + 1
    /\ UNCHANGED <<table, pc, op, photos, aidx, duplicate_groups, processed,
                   matches, new_hashes, result>>
    /\ UNCHANGED aside

\* the listing of one album is exhausted: next round of "for album in albums"
AcrossNextAlbum ==
    /\ pc = "across_collect"
    /\ aidx <= Len(AlbumIds)
    /\ idx > Len(table[aidx])
    /\ aidx' = aidx + 1
    /\ idx' = 1
    /\ UNCHANGED <<table, pc, op, photos, photo_hashes, duplicate_groups,
                   processed, matches, new_hashes, result, fetched>>
    /\ UNCHANGED aside

\* all albums collected: return early below two fingerprinted photos
AcrossCollected ==
    /\ pc = "across_collect"
    /\ aidx > Len(AlbumIds)
    /\ IF AcrossTooFew(Len(photo_hashes))
       THEN /\ result' = [duplicateGroups |-> <<>>,
                          totalPhotos |-> Len(photo_hashes),
                          duplicatesFound |-> 0]
            /\ pc' = "done"
       ELSE /\ result' = result
            /\ pc' = "across_group"
    /\ idx' = 1
    /\ UNCHANGED <<table, op, photos, photo_hashes, aidx, duplicate_groups,
                   processed, matches, new_hashes, fetched>>
    /\ UNCHANGED aside

RECURSIVE AcrossInnerPrepend(_, _, _, _, _)
\* AcrossInner with "group.insert(0, ...)" in place of "group.append(...)"
AcrossInnerPrepend(photo1, hashes, j, group, proc) ==
    IF j > Len(hashes) THEN [group |-> group, processed |-> proc]
    ELSE LET photo2 == hashes[j]
             distance == hamming_distance(photo1.dHash, photo2.dHash)
         IN  IF photo2.id \in proc
             THEN AcrossInnerPrepend(photo1, hashes, j + 1, group, proc)
             ELSE IF photo1.fileHash = photo2.fileHash
             THEN AcrossInnerPrepend(photo1, hashes, j + 1,
                                     <<Put(Put(photo2, "similarity", 100),
                                           "exactMatch", TRUE)>> \o group,
                                     proc \cup {photo2.id})
             ELSE IF distance <= SIMILARITY_THRESHOLD
             THEN AcrossInnerPrepend(photo1, hashes, j + 1,
                                     <<Put(Put(photo2, "similarity", Similarity(distance)),
                                           "exactMatch", FALSE)>> \o group,
                                     proc \cup {photo2.id})
             ELSE AcrossInnerPrepend(photo1, hashes, j + 1, group, proc)

RECURSIVE AcrossInner(_, _, _, _, _)
\* "for j, photo2 in enumerate(all_photo_hashes[i+1:], i+1)"
AcrossInner(photo1, hashes, j, group, proc) ==
    IF j > Len(hashes) THEN [group |-> group, processed |-> proc]
    ELSE LET photo2 == hashes[j]
             distance == hamming_distance(photo1.dHash, photo2.dHash)
         IN  IF photo2.id \in proc
             THEN AcrossInner(photo1, hashes, j + 1, group, proc)
             ELSE IF photo1.fileHash = photo2.fileHash
             THEN AcrossInner(photo1, hashes, j + 1,
                              Append(group, Put(Put(photo2, "similarity", 100),
                                                "exactMatch", TRUE)),
                              proc \cup {photo2.id})
             ELSE IF distance <= SIMILARITY_THRESHOLD
             THEN AcrossInner(photo1, hashes, j + 1,
                              Append(group, Put(Put(photo2, "similarity", Similarity(distance)),
                                                "exactMatch", FALSE)),
                              proc \cup {photo2.id})
             ELSE AcrossInner(photo1, hashes, j + 1, group, proc)

\* AlbumsInGroup that looks at the primary only
AlbumsOfPrimary(group) == { group[1].albumId }

\* set(p['albumId'] for p in group)
AlbumsInGroup(group) == { group[k].albumId : k \in DOMAIN group }

\* one round of "for i, photo1 in enumerate(all_photo_hashes)"
AcrossGroup ==
    /\ pc = "across_group"
    /\ idx <= Len(photo_hashes)
    /\ LET photo1 == photo_hashes[idx]
           inner == AcrossInner(photo1, photo_hashes, idx + 1, <<photo1>>, processed)
           first == Put(Put(photo1, "similarity", 100), "exactMatch", TRUE)
           group == [inner.group EXCEPT ![1] = first]
           albums_in_group == AlbumsInGroup(group)
       IN  IF photo1.id \in processed
           THEN UNCHANGED <<photo_hashes, duplicate_groups, processed>>
           ELSE IF AcrossEmits(inner.group)
           THEN /\ duplicate_groups' =
                     Append(duplicate_groups,
                            [photos |-> group, count |-> Len(group),
                             crossAlbum |-> Cardinality(albums_in_group) > 1,
                             albums |-> albums_in_group])
                /\ processed' = inner.processed \cup {photo1.id}
                /\ photo_hashes' = [photo_hashes EXCEPT ![idx] = first]
           ELSE /\ processed' = inner.processed
                /\ UNCHANGED <<photo_hashes, duplicate_groups>>
    /\ idx' = idx + 1
    /\ UNCHANGED <<table, pc, op, photos, aidx, matches, new_hashes, result,
                   fetched>>
    /\ UNCHANGED aside

\* sum(1 for g in duplicate_groups if g.get('crossAlbum', False))
CountCross(groups) ==
    Cardinality({ k \in DOMAIN groups : groups[k].crossAlbum })

AcrossReturn ==
    /\ pc = "across_group"
    /\ idx > Len(photo_hashes)
    /\ result' = [duplicateGroups |-> duplicate_groups,
                  totalPhotos |-> Len(photo_hashes),
                  duplicatesFound |-> SumCounts(duplicate_groups),
                  groupsFound |-> Len(duplicate_groups),
                  crossAlbumGroups |-> CountCross(duplicate_groups)]
    /\ pc' = "done"
    /\ UNCHANGED <<table, op, photos, photo_hashes, idx, aidx,
                   duplicate_groups, processed, matches, new_hashes, fetched>>
    /\ UNCHANGED aside

---------------------------------------------------------------------------
(* check_duplicate_before_upload *)

\* CheckKeeps without the test of item.get('hidden')
CheckKeepsHidden(item) == item.skPrefix = "PHOTO#"

\* the two "continue" tests of the listing loop
CheckKeeps(item) ==
    /\ item.skPrefix = "PHOTO#"
    /\ ~item.hidden

\* the byte streams a caller may hand to the check: the decodable ones and
\* one that Image.open rejects
Candidates == Bodies \cup {Broken}

\* fingerprint the candidate and query the target album; Image.open is
\* called outside any try, so its exception leaves the operation
CheckStart(image_data, a) ==
    /\ pc = "idle"
    /\ op' = [name |-> "check", album |-> a, candidate |-> image_data]
    /\ IF image_data = Broken
       THEN /\ pc' = "raised"
            /\ new_hashes' = new_hashes
       ELSE /\ pc' = "check_items"
            /\ new_hashes' = compute_image_hashes(PixelsOf(image_data), image_data)
    /\ idx' = 1
    /\ UNCHANGED <<table, photos, photo_hashes, aidx, duplicate_groups,
                   processed, matches, result, fetched>>
    /\ UNCHANGED aside

\* the comparison of the candidate with one fingerprinted item: the matches
\* after it ("Check for exact match", "Check perceptual similarity")
CheckCompare(candidate_hashes, existing_hashes, item, found) ==
    LET distance == hamming_distance(candidate_hashes.dHash, existing_hashes.dHash)
        entry(sim, exact) ==
            [id |-> item.photoId, filename |-> item.filename,
             similarity |-> sim, exactMatch |-> exact]
    IN  IF candidate_hashes.fileHash = existing_hashes.fileHash
        THEN Append(found, entry(100, TRUE))
        ELSE IF distance <= SIMILARITY_THRESHOLD
        THEN Append(found, entry(Similarity(distance), FALSE))
        ELSE found

\* one round of "for item in response['Items']"
CheckItem ==
    /\ pc = "check_items"
    /\ idx <= Len(table[op.album])
    /\ LET item == table[op.album][idx]
           s3_key == KeyToUse(item)
           got == get_image_from_s3(ObjectAt(s3_key))
           existing_hashes == compute_image_hashes(got.image, got.image_data)
       IN  IF ~CheckKeeps(item) \/ s3_key = None
           THEN UNCHANGED <<matches, fetched>>
           ELSE /\ fetched' = fetched \cup {item.photoId}
                /\ matches' =
                     IF ~got.ok THEN matches
                     ELSE CheckCompare(new_hashes, existing_hashes, item, matches)
    /\ idx' = idx + 1
    /\ UNCHANGED <<table, pc, op, photos, photo_hashes, aidx,
                   duplicate_groups, processed, new_hashes, result>>
    /\ UNCHANGED aside

\* IsDuplicate with the test "len(matches) >= 0"
IsDuplicateAlways(found) == Len(found) >= 0

\* 'isDuplicate': len(matches) > 0
IsDuplicate(found) == Len(found) > 0

CheckReturn ==
    /\ pc = "check_items"
    /\ idx > Len(table[op.album])
    /\ result' = [isDuplicate |-> IsDuplicate(matches), matches |-> matches]
    /\ pc' = "done"
    /\ UNCHANGED <<table, op, photos, photo_hashes, idx, aidx,
                   duplicate_groups, processed, matches, new_hashes, fetched>>
    /\ UNCHANGED aside

---------------------------------------------------------------------------
(* The specification *)

Next ==
    \/ \E a \in DOMAIN AlbumIds : AlbumList(a)
    \/ AlbumHash
    \/ AlbumHashDone
    \/ AlbumGroup
    \/ AlbumReturn
    \/ AcrossList
    \/ AcrossCollect
    \/ AcrossNextAlbum
    \/ AcrossCollected
    \/ AcrossGroup
    \/ AcrossReturn
    \/ \E image_data \in Candidates : \E a \in DOMAIN AlbumIds : CheckStart(image_data, a)
    \/ CheckItem
    \/ CheckReturn

Spec == Init /\ [][Next]_vars

---------------------------------------------------------------------------
(* The functions of the module called on their own *)

\* the hex characters the hash strings are built from: no bit, the lowest
\* bit, all bits
HexSample == {"0", "1", "f"}

\* the hash strings of one to MaxHashLen characters
HexStrings == UNION { [1..n -> HexSample] : n \in 1..MaxHashLen }

\* strings of "f" of every length from none to one more than MaxHashLen
Runs == { [k \in 1..n |-> "f"] : n \in 0..(MaxHashLen + 1) }

\* the callers of hamming_distance
Callers == {"AlbumInner", "AcrossInner", "CheckCompare"}

\* the values of the hash_size parameter: the default and two small ones
HashSizes == {2, 3, hash_size}

PixelValues == {0, 1}

\* the 8 x 8 luminance grid whose last n pixels are bright
AvgGrid(n) ==
    [k \in 1..(hash_size * hash_size) |->
        IF k > hash_size * hash_size - n THEN 1 ELSE 0]

\* resized images of (size + 1) x size pixels
DiffImages(size) ==
    IF size = hash_size THEN { Grid(n) : n \in 0..(2 * hash_size) }
    ELSE [1..((size + 1) * size) -> PixelValues]

\* resized images of size x size pixels
AvgImages(size) ==
    IF size = hash_size THEN { AvgGrid(n) : n \in 0..(hash_size * hash_size) }
    ELSE [1..(size * size) -> PixelValues]

\* two fingerprints of different files with the given dHash values
FirstHashes(h) == [dHash |-> h, fileHash |-> compute_file_hash("one")]
SecondHashes(h) == [dHash |-> h, fileHash |-> compute_file_hash("two")]

FirstPhoto(h) == Put(Put([id |-> 1], "dHash", h), "fileHash", FirstHashes(h).fileHash)
SecondPhoto(h) == Put(Put([id |-> 2], "dHash", h), "fileHash", SecondHashes(h).fileHash)

HashInit ==
    /\ table = [a \in 1..Len(AlbumIds) |-> <<>>]
    /\ Idle
    /\ ret = NoReturn
    /\ other = Nobody
    /\ interleaved = FALSE
    /\ NoTraffic
    /\ \/ \E n \in 1..MaxHashLen : \E a, b \in [1..n -> HexSample] :
              call = [fn |-> "hamming_distance", hash1 |-> a, hash2 |-> b]
       \/ \E a \in HexStrings : \E b \in Runs :
              \E who \in Callers \cup {"hamming_distance"} :
                  call = [fn |-> who, hash1 |-> a, hash2 |-> b]
       \/ \E size \in HashSizes : \E p \in DiffImages(size) :
              call = [fn |-> "compute_difference_hash", size |-> size, pixels |-> p]
       \/ \E size \in HashSizes : \E p \in AvgImages(size) :
              call = [fn |-> "compute_average_hash", size |-> size, pixels |-> p]

\* the call returns value
Return(value) ==
    /\ ~ret.done
    /\ ret' = [done |-> TRUE, value |-> value]
    /\ UNCHANGED <<table, pc, op, photos, photo_hashes, idx, aidx,
                   duplicate_groups, processed, matches, new_hashes, result,
                   fetched, call>>
    /\ UNCHANGED apart

ApplyHammingDistance ==
    /\ call.fn = "hamming_distance"
    /\ Return(hamming_distance(call.hash1, call.hash2))

\* the inner loop of the single-album scan over a primary and one later photo
ApplyAlbumInner ==
    /\ call.fn = "AlbumInner"
    /\ LET photo1 == FirstPhoto(call.hash1)
           photo2 == SecondPhoto(call.hash2)
       IN  Return(AlbumInner(photo1, <<photo1, photo2>>, 2, <<photo1>>, {}).group)

\* the inner loop of the cross-album scan over a primary and one later photo
ApplyAcrossInner ==
    /\ call.fn = "AcrossInner"
    /\ LET photo1 == FirstPhoto(call.hash1)
           photo2 == SecondPhoto(call.hash2)
       IN  Return(AcrossInner(photo1, <<photo1, photo2>>, 2, <<photo1>>, {}).group)

\* the comparison of the pre-insert check of a candidate with one item
ApplyCheckCompare ==
    /\ call.fn = "CheckCompare"
    /\ Return(CheckCompare(FirstHashes(call.hash1), SecondHashes(call.hash2),
                           [photoId |-> 2, filename |-> JpgName], <<>>))

ApplyDifferenceHash ==
    /\ call.fn = "compute_difference_hash"
    /\ Return(compute_difference_hash(call.pixels, call.size))

ApplyAverageHash ==
    /\ call.fn = "compute_average_hash"
    /\ Return(compute_average_hash(call.pixels, call.size))

HashNext ==
    \/ ApplyHammingDistance
    \/ ApplyAlbumInner
    \/ ApplyAcrossInner
    \/ ApplyCheckCompare
    \/ ApplyDifferenceHash
    \/ ApplyAverageHash

HashSpec == HashInit /\ [][HashNext]_vars

---------------------------------------------------------------------------
(* Vocabulary of the properties *)

ScanRunning == op.name \in {"album", "across"}
ScanDone == ScanRunning /\ pc = "done"

\* the ids of the members of a group
GroupIds(g) == { g.photos[k].id : k \in DOMAIN g.photos }

\* the ids of all grouped photos
GroupedIds == UNION { GroupIds(duplicate_groups[n]) : n \in DOMAIN duplicate_groups }

\* the scan position of a fingerprinted photo
Pos(id) == CHOOSE i \in DOMAIN photo_hashes : photo_hashes[i].id = id

\* two fingerprinted photos are duplicates of each other
Matches(p, q) ==
    \/ p.fileHash = q.fileHash
    \/ hamming_distance(p.dHash, q.dHash) <= SIMILARITY_THRESHOLD

---------------------------------------------------------------------------
(* C1 *)

\* C1: processed-once.  At every moment of a scan no photo id is in two
\* groups or twice in one group, a non-primary member of a group is the
\* primary of no group, and the processed set holds exactly the grouped ids.
C1_ProcessedOnce ==
    ScanRunning =>
        /\ \A m, n \in DOMAIN duplicate_groups :
               m # n => GroupIds(duplicate_groups[m]) \cap GroupIds(duplicate_groups[n]) = {}
        /\ \A n \in DOMAIN duplicate_groups :
               Cardinality(GroupIds(duplicate_groups[n])) = Len(duplicate_groups[n].photos)
        /\ \A m, n \in DOMAIN duplicate_groups :
               \A k \in 2..Len(duplicate_groups[m].photos) :
                   duplicate_groups[m].photos[k].id # duplicate_groups[n].photos[1].id
        /\ processed = GroupedIds

\* a finished scan in which a photo claimed as a non-primary member was
\* passed over as a primary although a later, ungrouped photo matches it
C1_Witness ==
    /\ ScanDone
    /\ \E n \in DOMAIN duplicate_groups :
           \E k \in 2..Len(duplicate_groups[n].photos) :
               \E j \in DOMAIN photo_hashes :
                   /\ j > Pos(duplicate_groups[n].photos[k].id)
                   /\ photo_hashes[j].id \notin GroupedIds
                   /\ Matches(photo_hashes[Pos(duplicate_groups[n].photos[k].id)],
                              photo_hashes[j])

---------------------------------------------------------------------------
(* C2 *)

\* C2: every emitted group has at least two members and a count equal to
\* their number, and when the scan has ended a photo that matches no later
\* photo is the primary of no group.
C2_GroupsOfTwoOrMore ==
    /\ ScanRunning =>
           \A n \in DOMAIN duplicate_groups :
               /\ Len(duplicate_groups[n].photos) >= 2
               /\ duplicate_groups[n].count = Len(duplicate_groups[n].photos)
    /\ ScanDone =>
           \A i \in DOMAIN photo_hashes :
               (\A j \in DOMAIN photo_hashes :
                    j > i => ~Matches(photo_hashes[i], photo_hashes[j]))
               => \A n \in DOMAIN duplicate_groups :
                      duplicate_groups[n].photos[1].id # photo_hashes[i].id

\* a finished scan that emitted a group and left a photo, which was a
\* candidate primary before the last photo, without one
C2_Witness ==
    /\ ScanDone
    /\ Len(duplicate_groups) >= 1
    /\ \E i \in DOMAIN photo_hashes :
           /\ i < Len(photo_hashes)
           /\ photo_hashes[i].id \notin GroupedIds

---------------------------------------------------------------------------
(* C3 *)

\* the fingerprint of the object a record of the table names
StoredHashes(item) == compute_image_hashes(PixelsOf(item.stored), item.stored)

\* the record of the target album a match entry reports
MatchedItem(entry) ==
    CHOOSE item \in { table[op.album][i] : i \in DOMAIN table[op.album] } :
        item.photoId = entry.id

\* C3: in the two scans and in the pre-insert check, a photo reported
\* because its exactHash equals the primary's (the candidate's) carries
\* similarity = 100 and exactMatch = true.
C3_ExactMatchReported ==
    /\ ScanRunning =>
           \A n \in DOMAIN duplicate_groups :
               \A k \in 2..Len(duplicate_groups[n].photos) :
                   LET member == duplicate_groups[n].photos[k]
                   IN  member.fileHash = duplicate_groups[n].photos[1].fileHash
                       => /\ "similarity" \in DOMAIN member
                          /\ "exactMatch" \in DOMAIN member
                          /\ member.similarity = 100
                          /\ member.exactMatch = TRUE
    /\ op.name = "check" =>
           \A k \in DOMAIN matches :
               StoredHashes(MatchedItem(matches[k])).fileHash = new_hashes.fileHash
               => /\ matches[k].similarity = 100
                  /\ matches[k].exactMatch = TRUE

---------------------------------------------------------------------------
(* C4 *)

\* the records of an album that the single-album scan can fingerprint
Retrievable(item) ==
    /\ item.skPrefix = "PHOTO#"
    /\ ~item.hidden
    /\ ~StartsWithDot(item.filename)
    /\ item.s3Key # None
    /\ item.stored # Broken

\* the album's retrievable records are two or more and share one byte stream
AllIdentical(a) ==
    LET kept == SelectSeq(table[a], Retrievable)
    IN  /\ Len(kept) >= 2
        /\ \A i \in DOMAIN kept : kept[i].stored = kept[1].stored

\* C4: a single-album scan of n >= 2 retrievable photos that all share one
\* exactHash returns exactly one group, which holds all n in scan order
\* (so the first is the primary), and duplicatesFound = n - 1.
C4_IdenticalPhotosOneGroup ==
    (pc = "done" /\ op.name = "album" /\ AllIdentical(op.album)) =>
        LET kept == SelectSeq(table[op.album], Retrievable)
        IN  /\ Len(result.duplicateGroups) = 1
            /\ Len(result.duplicateGroups[1].photos) = Len(kept)
            /\ \A i \in DOMAIN kept :
                   result.duplicateGroups[1].photos[i].id = kept[i].photoId
            /\ result.duplicatesFound = Len(kept) - 1

\* a finished single-album scan of three byte-identical photos
C4_Witness ==
    /\ pc = "done"
    /\ op.name = "album"
    /\ AllIdentical(op.album)
    /\ Len(SelectSeq(table[op.album], Retrievable)) = 3
    /\ result.duplicatesFound = 2

---------------------------------------------------------------------------
(* C5 *)

\* C5: the first member of every group carries similarity = 100 and
\* exactMatch = true, every other member comes after it in scan order, and
\* the groups are emitted in the scan order of their primaries.
C5_PrimaryFirst ==
    ScanRunning =>
        /\ \A n \in DOMAIN duplicate_groups :
               LET group == duplicate_groups[n].photos
               IN  /\ group[1].similarity = 100
                   /\ group[1].exactMatch = TRUE
                   /\ \A k \in 2..Len(group) : Pos(group[1].id) < Pos(group[k].id)
        /\ \A m, n \in DOMAIN duplicate_groups :
               m < n => Pos(duplicate_groups[m].photos[1].id)
                          < Pos(duplicate_groups[n].photos[1].id)

\* a finished cross-album scan with two groups, the second of which has a
\* primary that comes after a member of the first
C5_Witness ==
    /\ pc = "done"
    /\ op.name = "across"
    /\ Len(duplicate_groups) = 2
    /\ \E k \in 2..Len(duplicate_groups[1].photos) :
           Pos(duplicate_groups[1].photos[k].id) > Pos(duplicate_groups[2].photos[1].id)

---------------------------------------------------------------------------
(* C6 *)

\* the groups emitted before group n hold the photo
ClaimedBefore(id, n) ==
    \E m \in 1..(n - 1) : id \in GroupIds(duplicate_groups[m])

\* a non-exact member or match is reported as the claim says
ReportedAsSimilar(entry, distance) ==
    /\ distance <= 10
    /\ entry.exactMatch = FALSE
    /\ entry.similarity = 100 - ((distance * 100) \div 64)
    /\ entry.similarity \in 85..100

\* C6: when a scan or a pre-insert check has ended, a photo whose exactHash
\* differs from the primary's (the candidate's) is in the group (the
\* matches) if and only if it was not yet processed and its dHash distance
\* is at most 10; it then carries exactMatch = false and
\* similarity = 100 - floor(distance * 100 / 64), a value in 85..100.
C6_SimilarWithinThreshold ==
    /\ ScanDone =>
           \A n \in DOMAIN duplicate_groups :
               LET group == duplicate_groups[n].photos
                   primary == group[1]
               IN  /\ \A k \in 2..Len(group) :
                          group[k].fileHash # primary.fileHash
                          => ReportedAsSimilar(group[k],
                                 hamming_distance(primary.dHash, group[k].dHash))
                   /\ \A j \in DOMAIN photo_hashes :
                          (j > Pos(primary.id) /\ photo_hashes[j].fileHash # primary.fileHash)
                          => ( photo_hashes[j].id \in GroupIds(duplicate_groups[n])
                               <=> ( /\ ~ClaimedBefore(photo_hashes[j].id, n)
                                     /\ hamming_distance(primary.dHash, photo_hashes[j].dHash) <= 10 ) )
    /\ (op.name = "check" /\ pc = "done") =>
           /\ \A k \in DOMAIN matches :
                  StoredHashes(MatchedItem(matches[k])).fileHash # new_hashes.fileHash
                  => ReportedAsSimilar(matches[k],
                         hamming_distance(new_hashes.dHash,
                                          StoredHashes(MatchedItem(matches[k])).dHash))
           /\ \A i \in 1..(idx - 1) :
                  LET item == table[op.album][i]
                  IN  ( /\ item.photoId \in fetched
                        /\ item.stored # Broken
                        /\ StoredHashes(item).fileHash # new_hashes.fileHash )
                      => ( (\E k \in DOMAIN matches : matches[k].id = item.photoId)
                           <=> hamming_distance(new_hashes.dHash, StoredHashes(item).dHash) <= 10 )

\* a finished pre-insert check that reported a photo 10 bits away with
\* similarity 85 and left out a fingerprinted photo
C6_Witness ==
    /\ pc = "done"
    /\ op.name = "check"
    /\ \E k \in DOMAIN matches :
           matches[k].similarity = 85 /\ matches[k].exactMatch = FALSE
    /\ \E i \in DOMAIN table[op.album] :
           /\ table[op.album][i].photoId \in fetched
           /\ table[op.album][i].stored # Broken
           /\ \A k \in DOMAIN matches : matches[k].id # table[op.album][i].photoId

---------------------------------------------------------------------------
(* C7 *)

\* the non-primary members of the groups of a result
Secondaries(groups) ==
    UNION { { <<n, k>> : k \in 2..Len(groups[n].photos) } : n \in DOMAIN groups }

\* C7: in a result with groups, duplicatesFound is the sum of
\* (group size - 1), groupsFound the number of groups and, in the
\* cross-album scan, crossAlbumGroups the number of groups flagged crossAlbum.
C7_Counts ==
    (ScanDone /\ Len(result.duplicateGroups) > 0) =>
        /\ result.duplicatesFound = Cardinality(Secondaries(result.duplicateGroups))
        /\ result.groupsFound = Len(result.duplicateGroups)
        /\ op.name = "across" =>
               result.crossAlbumGroups =
                   Cardinality({ n \in DOMAIN result.duplicateGroups :
                                     result.duplicateGroups[n].crossAlbum = TRUE })

\* a finished cross-album scan with a group inside one album and a group
\* that spans two albums
C7_Witness ==
    /\ pc = "done"
    /\ op.name = "across"
    /\ Len(result.duplicateGroups) = 2
    /\ result.crossAlbumGroups = 1
    /\ result.duplicatesFound = 2

---------------------------------------------------------------------------
(* C8 *)

\* C8: every result of a scan carries groupsFound (and crossAlbumGroups in
\* the cross-album scan), and a result without groups reports
\* groupsFound = 0 and duplicatesFound = 0.
C8_GroupsFoundOnEveryPath ==
    ScanDone =>
        /\ "groupsFound" \in DOMAIN result
        /\ op.name = "across" => "crossAlbumGroups" \in DOMAIN result
        /\ result.duplicateGroups = <<>> =>
               result.groupsFound = 0 /\ result.duplicatesFound = 0

---------------------------------------------------------------------------
(* C9 *)

\* a record is a visible photo
Visible(item) ==
    /\ item.skPrefix = "PHOTO#"
    /\ ~item.hidden
    /\ ~StartsWithDot(item.filename)

VisibleCount(a) == Len(SelectSeq(table[a], Visible))

\* C9: a single-album scan of an album with 0 or 1 visible photos returns at
\* once an empty group list with totalPhotos = the visible count, and
\* downloads and fingerprints nothing.
C9_EarlyReturn ==
    (op.name = "album" /\ VisibleCount(op.album) < 2) =>
        /\ pc = "done"
        /\ fetched = {}
        /\ photo_hashes = <<>>
        /\ result.duplicateGroups = <<>>
        /\ result.totalPhotos = VisibleCount(op.album)

\* a finished scan of an album that lists one visible photo and one other
\* record
C9_Witness ==
    /\ pc = "done"
    /\ op.name = "album"
    /\ VisibleCount(op.album) = 1
    /\ Len(table[op.album]) = 2
    /\ result.totalPhotos = 1

---------------------------------------------------------------------------
(* C10 *)

\* the records a scan reads: one album, or all albums of the user
Scope ==
    IF op.name = "album" THEN { table[op.album][i] : i \in DOMAIN table[op.album] }
    ELSE UNION { { table[a][i] : i \in DOMAIN table[a] } : a \in DOMAIN table }

InvisibleIds == { item.photoId : item \in { it \in Scope : ~Visible(it) } }

\* C10: in both scans a hidden, dot-named or non-PHOTO# record is never
\* listed, downloaded, fingerprinted or grouped, and totalPhotos counts at
\* most the other records of the scope.
C10_InvisibleExcluded ==
    ScanRunning =>
        /\ fetched \cap InvisibleIds = {}
        /\ { photos[i].id : i \in DOMAIN photos } \cap InvisibleIds = {}
        /\ { photo_hashes[i].id : i \in DOMAIN photo_hashes } \cap InvisibleIds = {}
        /\ GroupedIds \cap InvisibleIds = {}
        /\ pc = "done" =>
               result.totalPhotos <= Cardinality(Scope) - Cardinality(InvisibleIds)

\* a finished cross-album scan that grouped two photos although the table
\* also holds an invisible record with the same bytes
C10_Witness ==
    /\ pc = "done"
    /\ op.name = "across"
    /\ \E item \in Scope :
           /\ ~Visible(item)
           /\ \E n \in DOMAIN duplicate_groups :
                  duplicate_groups[n].photos[1].fileHash = StoredHashes(item).fileHash

---------------------------------------------------------------------------
(* C11 *)

\* C11: in the pre-insert check a record of the target album that is hidden
\* or has a dot-prefixed filename is never fetched and never appears in
\* matches.
C11_CheckVisibilityFilter ==
    op.name = "check" =>
        \A i \in DOMAIN table[op.album] :
            LET item == table[op.album][i]
            IN  (item.hidden \/ StartsWithDot(item.filename))
                => /\ item.photoId \notin fetched
                   /\ \A k \in DOMAIN matches : matches[k].id # item.photoId

---------------------------------------------------------------------------
(* C12 *)

\* the id of the album whose listing holds the photo
AlbumOf(id) ==
    AlbumIds[CHOOSE a \in DOMAIN table :
                 \E i \in DOMAIN table[a] : table[a][i].photoId = id]

\* the table is two retrievable photos with the same bytes, one per album
TwoIdenticalInTwoAlbums ==
    /\ \A a \in DOMAIN table :
           /\ Len(table[a]) = 1
           /\ Visible(table[a][1])
           /\ KeyToUse(table[a][1]) # None
           /\ table[a][1].stored # Broken
    /\ table[1][1].stored = table[2][1].stored

\* C12: in the cross-album scan the 'albums' of every group is the set of
\* the album ids of its members, crossAlbum is true exactly when that set
\* has more than one element, and two identical photos in two different
\* albums give one group with crossAlbum true and two album ids.
C12_CrossAlbumFlag ==
    op.name = "across" =>
        /\ \A n \in DOMAIN duplicate_groups :
               LET g == duplicate_groups[n]
               IN  /\ g.albums = { AlbumOf(g.photos[k].id) : k \in DOMAIN g.photos }
                   /\ g.crossAlbum <=> Cardinality(g.albums) > 1
        /\ (pc = "done" /\ TwoIdenticalInTwoAlbums) =>
               /\ Len(result.duplicateGroups) = 1
               /\ result.duplicateGroups[1].crossAlbum = TRUE
               /\ Cardinality(result.duplicateGroups[1].albums) = 2

\* a finished cross-album scan with a group of three members from two albums
C12_Witness ==
    /\ pc = "done"
    /\ op.name = "across"
    /\ \E n \in DOMAIN result.duplicateGroups :
           /\ Len(result.duplicateGroups[n].photos) = 3
           /\ result.duplicateGroups[n].crossAlbum
           /\ Cardinality(result.duplicateGroups[n].albums) = 2

---------------------------------------------------------------------------
(* C13 *)

CheckDone == op.name = "check" /\ pc = "done"

\* C13: the pre-insert check returns isDuplicate = true exactly when matches
\* is non-empty, and against a target album without records it returns
\* isDuplicate = false and no matches.
C13_IsDuplicateIffMatches ==
    CheckDone =>
        /\ result.isDuplicate <=> (result.matches # <<>>)
        /\ table[op.album] = <<>> =>
               (result.isDuplicate = FALSE /\ result.matches = <<>>)

\* a finished check against an empty album while the other album holds a
\* photo with the candidate's bytes
C13_Witness ==
    /\ CheckDone
    /\ table[op.album] = <<>>
    /\ result.isDuplicate = FALSE
    /\ \E a \in DOMAIN table : \E i \in DOMAIN table[a] :
           Visible(table[a][i]) /\ table[a][i].stored = op.candidate

---------------------------------------------------------------------------
(* C14 *)

\* a record of the target album that the check compares with the candidate:
\* a photo record that is not hidden, has a key, and whose object decodes
Compared(item) ==
    /\ item.skPrefix = "PHOTO#"
    /\ ~item.hidden
    /\ (item.thumbnailKey # None \/ item.s3Key # None)
    /\ item.stored # Broken

\* a compared record that is a duplicate of the candidate
ComparedAndMatching(item) ==
    Compared(item) /\ Matches(StoredHashes(item), new_hashes)

---------------------------------------------------------------------------
(* C15 *)

\* a record the single-album scan tries to download
AlbumTried(item) == Visible(item) /\ item.s3Key # None

\* a record the cross-album scan tries to download
AcrossTried(item) ==
    Visible(item) /\ (item.thumbnailKey # None \/ item.s3Key # None)

Decodes(item) == item.stored # Broken

AlbumFingerprinted(item) == AlbumTried(item) /\ Decodes(item)
AcrossFingerprinted(item) == AcrossTried(item) /\ Decodes(item)

\* the list the scan downloads from, in scan order
TriedList ==
    IF op.name = "album" THEN SelectSeq(table[op.album], AlbumTried)
    ELSE SelectSeq(table[1], AcrossTried) \o SelectSeq(table[2], AcrossTried)

\* the same list without the photos whose retrieval fails
ListWithoutFailed ==
    IF op.name = "album" THEN SelectSeq(table[op.album], AlbumFingerprinted)
    ELSE SelectSeq(table[1], AcrossFingerprinted)
         \o SelectSeq(table[2], AcrossFingerprinted)

RECURSIVE GroupsOf(_, _, _)
\* the groups (as sequences of ids) of a list of records all of which can be
\* fingerprinted: each photo not yet claimed takes every later unclaimed
\* duplicate of it, and forms a group if it took one
GroupsOf(items, i, claimed) ==
    IF i > Len(items) THEN <<>>
    ELSE LET taken == SelectSeq(SubSeq(items, i + 1, Len(items)),
                                LAMBDA it : /\ it.photoId \notin claimed
                                            /\ Matches(StoredHashes(items[i]),
                                                       StoredHashes(it)))
             ids == <<items[i].photoId>>
                    \o [k \in DOMAIN taken |-> taken[k].photoId]
         IN  IF items[i].photoId \in claimed \/ taken = <<>>
             THEN GroupsOf(items, i + 1, claimed)
             ELSE <<ids>> \o GroupsOf(items, i + 1,
                                      claimed \cup { ids[k] : k \in DOMAIN ids })

\* the ids of the groups of a result
ResultGroupIds ==
    [n \in DOMAIN result.duplicateGroups |->
        [k \in DOMAIN result.duplicateGroups[n].photos |->
            result.duplicateGroups[n].photos[k].id]]

\* some photo of the list cannot be retrieved
SomeRetrievalFails == \E k \in DOMAIN TriedList : ~Decodes(TriedList[k])

\* C15: when the retrieval of a photo fails, the scan or check still ends
\* with every photo of its list fetched, the failed photo is not
\* fingerprinted, every other photo is, and the groups (the matches) are
\* those of the list without the failed photo.
C15_FailedRetrievalSkipped ==
    /\ (ScanDone /\ SomeRetrievalFails /\ Len(TriedList) >= 2) =>
           /\ fetched = { TriedList[k].photoId : k \in DOMAIN TriedList }
           /\ Len(photo_hashes) = Len(ListWithoutFailed)
           /\ \A k \in DOMAIN photo_hashes :
                  photo_hashes[k].id = ListWithoutFailed[k].photoId
           /\ ResultGroupIds = GroupsOf(ListWithoutFailed, 1, {})
    /\ (CheckDone /\ \E i \in DOMAIN table[op.album] :
                         ~Decodes(table[op.album][i])) =>
           /\ \A i \in DOMAIN table[op.album] :
                  Compared(table[op.album][i])
                  => table[op.album][i].photoId \in fetched
           /\ \A i \in DOMAIN table[op.album] :
                  ~Decodes(table[op.album][i])
                  => \A k \in DOMAIN result.matches :
                         result.matches[k].id # table[op.album][i].photoId

\* a finished scan in which the photo before and the photo after a failed
\* retrieval form a group
C15_Witness ==
    /\ ScanDone
    /\ \E k \in 2..(Len(TriedList) - 1) :
           /\ ~Decodes(TriedList[k])
           /\ \E n \in DOMAIN result.duplicateGroups :
                  /\ result.duplicateGroups[n].photos[1].id = TriedList[k - 1].photoId
                  /\ result.duplicateGroups[n].photos[2].id = TriedList[k + 1].photoId

---------------------------------------------------------------------------
(* C16 *)

\* the keys of a scan result that describe groups and totals
StatisticsKeys ==
    {"duplicateGroups", "totalPhotos", "duplicatesFound", "groupsFound",
     "crossAlbumGroups"}

\* the photos of the scan's list whose retrieval was tried and failed
FailedIds ==
    { TriedList[k].photoId : k \in { j \in DOMAIN TriedList :
          ~Decodes(TriedList[j]) /\ TriedList[j].photoId \in fetched } }

\* C16: the result of a scan that excluded a photo because its retrieval or
\* decoding failed carries, beside the groups and totals, a key that reports
\* the failed photos.
C16_FailuresReported ==
    (ScanDone /\ FailedIds # {}) => DOMAIN result \ StatisticsKeys # {}

---------------------------------------------------------------------------
(* C17 *)

\* C17: no operation ends by raising: whatever the stored objects and the
\* candidate bytes are, an operation that has started is running or has
\* returned a result.
C17_NeverRaises ==
    /\ pc # "raised"
    /\ pc = "done" => result # NoResult

---------------------------------------------------------------------------
(* C18 *)

\* hamming_distance has returned for two strings of equal length
HammingReturned ==
    /\ call.fn = "hamming_distance"
    /\ ret.done
    /\ Len(call.hash1) = Len(call.hash2)

\* the number of positions at which the 4 * length bit expansions differ
DifferingBits(a, b) ==
    Cardinality({ k \in 1..(4 * Len(a)) : HexToBits(a)[k] # HexToBits(b)[k] })

\* C18: for hex strings a and b of equal length hamming_distance(a, b) is
\* the number of differing bits of their 4 * length bit expansions, equals
\* hamming_distance(b, a), and hamming_distance(a, a) = 0; the distance of
\* "0000" and "ffff" is 16 and that of "0000" and "0001" is 1.
C18_HammingDistance ==
    HammingReturned =>
        /\ ret.value = DifferingBits(call.hash1, call.hash2)
        /\ ret.value = hamming_distance(call.hash2, call.hash1)
        /\ hamming_distance(call.hash1, call.hash1) = 0
        /\ (call.hash1 = <<"0", "0", "0", "0">> /\ call.hash2 = <<"f", "f", "f", "f">>)
               => ret.value = 16
        /\ (call.hash1 = <<"0", "0", "0", "0">> /\ call.hash2 = <<"0", "0", "0", "1">>)
               => ret.value = 1

\* hamming_distance has returned 15 for "0001" and "ffff": the shorter
\* binary string was padded
C18_Witness ==
    /\ HammingReturned
    /\ call.hash1 = <<"0", "0", "0", "1">>
    /\ call.hash2 = <<"f", "f", "f", "f">>
    /\ ret.value = 15

---------------------------------------------------------------------------
(* C19 *)

\* a call with two hash strings of different lengths has returned
UnequalLengthsReturned ==
    /\ call.fn \in Callers \cup {"hamming_distance"}
    /\ ret.done
    /\ Len(call.hash1) # Len(call.hash2)

\* C19: for two hash strings of different lengths hamming_distance returns
\* the infinite distance, and each caller returns without taking the pair:
\* the inner loops of the scans leave the group with its primary alone and
\* the comparison of the pre-insert check adds no match.
C19_UnequalLengthsNoMatch ==
    UnequalLengthsReturned =>
        /\ call.fn = "hamming_distance" =>
               (ret.value = Inf /\ ret.value > SIMILARITY_THRESHOLD)
        /\ call.fn \in {"AlbumInner", "AcrossInner"} =>
               (Len(ret.value) = 1 /\ ret.value[1].id = 1)
        /\ call.fn = "CheckCompare" => ret.value = <<>>

\* the inner loop of the single-album scan has returned the primary alone
\* for "ff" and "f", whose binary strings agree wherever both have a bit
C19_Witness ==
    /\ UnequalLengthsReturned
    /\ call.fn = "AlbumInner"
    /\ call.hash1 = <<"f", "f">>
    /\ call.hash2 = <<"f">>
    /\ Len(ret.value) = 1

---------------------------------------------------------------------------
(* C20 *)

\* one of the two perceptual hashes has returned
HashReturned ==
    /\ call.fn \in {"compute_difference_hash", "compute_average_hash"}
    /\ ret.done

\* C20: for every hash size N and every image, compute_average_hash and
\* compute_difference_hash return N * N / 4 lowercase hex characters.
C20_HashLength ==
    HashReturned =>
        /\ Len(ret.value) = (call.size * call.size) \div 4
        /\ \A k \in DOMAIN ret.value :
               \E c \in DOMAIN HexChars : ret.value[k] = HexChars[c]

---------------------------------------------------------------------------
(* Two invocations of one operation against one table, interleaved *)

\* largest number of records of the table two invocations run against
MaxPair == 2

\* the listings of n plain visible photos, identical or 10 bits apart
PairListings(n) == [1..n -> BesideItems]

\* the locals of the running invocation
Locals ==
    [pc |-> pc, op |-> op, photos |-> photos, photo_hashes |-> photo_hashes,
     idx |-> idx, aidx |-> aidx, duplicate_groups |-> duplicate_groups,
     processed |-> processed, matches |-> matches, new_hashes |-> new_hashes,
     result |-> result, fetched |-> fetched]

\* the locals of an invocation that has not started
IdleLocals ==
    [pc |-> "idle", op |-> NoOp, photos |-> <<>>, photo_hashes |-> <<>>,
     idx |-> 0, aidx |-> 0, duplicate_groups |-> <<>>, processed |-> {},
     matches |-> <<>>, new_hashes |-> NoHashes, result |-> NoResult,
     fetched |-> {}]

PairInit ==
    /\ \E n \in 0..MaxPair : \E split \in 0..n : \E f \in PairListings(n) :
           table = MakeTable(f, split)
    /\ Idle
    /\ call = NoCall
    /\ ret = NoReturn
    /\ other = IdleLocals
    /\ interleaved = FALSE
    /\ NoTraffic

\* OwnProcessed with one set "processed" at module level, shared by the
\* invocations
SharedProcessed(inv) == processed

\* "processed = set()" is a local of the call: an invocation that resumes
\* finds the set it left
OwnProcessed(inv) == inv.processed

\* the running invocation is suspended and the other one resumes
Switch ==
    /\ other # Nobody
    /\ other' = Locals
    /\ pc' = other.pc
    /\ op' = other.op
    /\ photos' = other.photos
    /\ photo_hashes' = other.photo_hashes
    /\ idx' = other.idx
    /\ aidx' = other.aidx
    /\ duplicate_groups' = other.duplicate_groups
    /\ processed' = OwnProcessed(other)
    /\ matches' = other.matches
    /\ new_hashes' = other.new_hashes
    /\ result' = other.result
    /\ fetched' = other.fetched
    /\ interleaved' = (interleaved \/ (pc \notin {"idle", "done", "raised"}
                                       /\ other.pc \notin {"done", "raised"}))
    /\ UNCHANGED <<table, call, ret, limiter>>

\* both invocations are given the same arguments
SameInputs == other.op = NoOp \/ op' = other.op

PairNext ==
    \/ Next /\ SameInputs
    \/ Switch

PairSpec == PairInit /\ [][PairNext]_vars

---------------------------------------------------------------------------
(* C21 *)

Finished(p) == p \in {"done", "raised"}

---------------------------------------------------------------------------
(* The operations run to their end against the smaller tables *)

\* largest number of records of a table of plain visible photos in ScanInit
MaxScan == 3

ScanInit ==
    /\ \/ \E n \in 0..MaxScan : \E split \in 0..n : \E f \in PlainListings(n) :
              table = MakeTable(f, split)
       \/ \E n \in 1..(MaxScan - 1) : \E split \in 0..n : \E f \in MixedListings(n) :
              table = MakeTable(f, split)
    /\ Idle
    /\ call = NoCall
    /\ ret = NoReturn
    /\ other = Nobody
    /\ interleaved = FALSE
    /\ NoTraffic

ScanSpec == ScanInit /\ [][Next]_vars

---------------------------------------------------------------------------
(* C22 *)

\* the scan compares fingerprints
Grouping == ScanRunning /\ pc \in {"album_group", "across_group", "done"}

\* the outer loop has gone past position k
Passed(k) ==
    /\ Grouping
    /\ k \in DOMAIN photo_hashes
    /\ (pc = "done" \/ k < idx)

\* the photo is a member of a group whose primary comes before position k
TakenBefore(id, k) ==
    \E n \in DOMAIN duplicate_groups :
        /\ Pos(duplicate_groups[n].photos[1].id) < k
        /\ id \in GroupIds(duplicate_groups[n])

\* the photo at position k matched nothing when it was the candidate primary:
\* no earlier primary had taken it, and every later photo either had been
\* taken by an earlier primary or does not match it
MatchedNothing(k) ==
    /\ ~TakenBefore(photo_hashes[k].id, k)
    /\ \A j \in DOMAIN photo_hashes :
           j > k => \/ TakenBefore(photo_hashes[j].id, k)
                    \/ ~Matches(photo_hashes[k], photo_hashes[j])

---------------------------------------------------------------------------
(* C23 *)

\* the list in the opposite order
Reverse(list) == [k \in 1..Len(list) |-> list[Len(list) + 1 - k]]

RECURSIVE Clusters(_, _, _)
\* the groups (as sequences of ids) that a list of fingerprinted photos
\* falls into when it is scanned front to back: each photo not yet claimed
\* takes every later unclaimed photo that matches it, and forms a group if
\* it took one
Clusters(hashes, i, claimed) ==
    IF i > Len(hashes) THEN <<>>
    ELSE LET taken == SelectSeq(SubSeq(hashes, i + 1, Len(hashes)),
                                LAMBDA p : /\ p.id \notin claimed
                                           /\ Matches(hashes[i], p))
             ids == <<hashes[i].id>> \o [k \in DOMAIN taken |-> taken[k].id]
         IN  IF hashes[i].id \in claimed \/ taken = <<>>
             THEN Clusters(hashes, i + 1, claimed)
             ELSE <<ids>> \o Clusters(hashes, i + 1,
                                      claimed \cup { ids[k] : k \in DOMAIN ids })

\* the groups as sets of ids, without their order
Partition(groups) ==
    { { groups[n][k] : k \in DOMAIN groups[n] } : n \in DOMAIN groups }

\* the partition of the fingerprinted photos the scan would have returned
\* had it met them in the opposite order
PartitionReversed == Partition(Clusters(Reverse(photo_hashes), 1, {}))

\* A matches B and B matches C but A does not match C
SomeChain ==
    \E a, b, c \in DOMAIN photo_hashes :
        /\ Matches(photo_hashes[a], photo_hashes[b])
        /\ Matches(photo_hashes[b], photo_hashes[c])
        /\ ~Matches(photo_hashes[a], photo_hashes[c])

\* C23: the groups a scan returns are those its scan order determines, and
\* scanning the same fingerprinted photos in the opposite order gives another
\* partition only when some A matches B and B matches C but A does not match
\* C.
C23_OrderDependent ==
    ScanDone =>
        /\ ResultGroupIds = Clusters(photo_hashes, 1, {})
        /\ Partition(ResultGroupIds) # PartitionReversed => SomeChain

\* a finished scan of three photos whose partition into groups is not the
\* one the opposite scan order gives
C23_Witness ==
    /\ ScanDone
    /\ Len(photo_hashes) = 3
    /\ Len(result.duplicateGroups) = 1
    /\ Partition(ResultGroupIds) # PartitionReversed

---------------------------------------------------------------------------
(* C24 *)

\* C24: at every moment of a scan, every non-primary member of an emitted
\* group has the exactHash of the group's primary or a dHash at distance 10
\* or less from the primary's.
C24_MembersMatchPrimary ==
    ScanRunning =>
        \A n \in DOMAIN duplicate_groups :
            LET group == duplicate_groups[n].photos
            IN  \A k \in 2..Len(group) :
                    \/ group[k].fileHash = group[1].fileHash
                    \/ hamming_distance(group[1].dHash, group[k].dHash) <= 10

\* a finished scan with a group two non-primary members of which do not
\* match each other
C24_Witness ==
    /\ ScanDone
    /\ \E n \in DOMAIN duplicate_groups :
           LET group == duplicate_groups[n].photos
           IN  \E k, m \in 2..Len(group) : ~Matches(group[k], group[m])

---------------------------------------------------------------------------
(* C25 *)

\* C25: when a scan has ended, no two fingerprinted photos that are both
\* outside every group match each other, and a fingerprinted photo that
\* matches an earlier photo outside every group is in a group.
C25_Complete ==
    ScanDone =>
        /\ \A i, j \in DOMAIN photo_hashes :
               (/\ i # j
                /\ photo_hashes[i].id \notin GroupedIds
                /\ photo_hashes[j].id \notin GroupedIds)
               => ~Matches(photo_hashes[i], photo_hashes[j])
        /\ \A i, j \in DOMAIN photo_hashes :
               (/\ i < j
                /\ photo_hashes[i].id \notin GroupedIds
                /\ Matches(photo_hashes[i], photo_hashes[j]))
               => photo_hashes[j].id \in GroupedIds

\* a finished scan of three fingerprinted photos that left one of them, which
\* matches a later photo, outside every group
C25_Witness ==
    /\ ScanDone
    /\ Len(photo_hashes) = 3
    /\ \E i, j \in DOMAIN photo_hashes :
           /\ i < j
           /\ photo_hashes[i].id \notin GroupedIds
           /\ Matches(photo_hashes[i], photo_hashes[j])

---------------------------------------------------------------------------
(* C26 *)

\* the number of visible photos the scan lists
VisibleListed ==
    IF op.name = "album" THEN VisibleCount(op.album)
    ELSE VisibleCount(1) + VisibleCount(2)

\* C26: when a scan of either scope has ended, totalPhotos is the number of
\* visible photos listed, whether or not some of them have no storage key or
\* cannot be retrieved.
C26_TotalPhotosVisible ==
    ScanDone => result.totalPhotos = VisibleListed

---------------------------------------------------------------------------
(* The rate limiter (src/lambda/rate_limiter.py) and the rate limiting     *)
(* block of lambda_handler (src/lambda/index.py) in front of the routes    *)

\* number of invocations of lambda_handler
MaxHandlers == 2

\* number of times the clock advances
MaxTicks == 1

\* number of calls to DynamoDB or CloudWatch that fail
MaxFaults == 1

\* RATE_LIMITS['global'] when RATE_LIMIT_THRESHOLD is not set
GlobalLimit == 100

\* CRITICAL_THRESHOLD when the environment does not set it
CRITICAL_THRESHOLD == 200

NOTIFICATION_COOLDOWN_SECONDS == 900

\* the default of the window_seconds parameter of check_rate_limit, and the
\* window_seconds of record_request
window_seconds == 60

\* "if request_count >= 300" and "elif request_count >= 150" of detect_abuse
ExtremeRate == 300
ElevatedRate == 150

GlobalPattern == <<"g", "l", "o", "b", "a", "l">>
SharePattern == <<"/", "s", "h", "a", "r", "e">>
EditPattern == <<"/", "e", "d", "i", "t">>
UploadPattern == <<"/", "u", "p", "l", "o", "a", "d">>
AlbumsPattern == <<"/", "a", "l", "b", "u", "m", "s">>
TimelinePattern == <<"/", "t", "i", "m", "e", "l", "i", "n", "e">>

\* the dict RATE_LIMITS, in the order of its keys
RATE_LIMITS ==
    << [pattern |-> GlobalPattern, limit |-> GlobalLimit],
       [pattern |-> SharePattern, limit |-> 10],
       [pattern |-> EditPattern, limit |-> 5],
       [pattern |-> UploadPattern, limit |-> 20],
       [pattern |-> AlbumsPattern, limit |-> 50],
       [pattern |-> TimelinePattern, limit |-> 50] >>

\* str.startswith
StartsWith(s, prefix) ==
    Len(s) >= Len(prefix) /\ SubSeq(s, 1, Len(prefix)) = prefix

\* the limit of the first pattern other than 'global' the endpoint starts
\* with, the global limit when there is none
get_rate_limit(endpoint) ==
    LET matching == SelectSeq(RATE_LIMITS,
                              LAMBDA e : /\ e.pattern # GlobalPattern
                                         /\ StartsWith(endpoint, e.pattern))
    IN  IF matching # <<>> THEN matching[1].limit ELSE GlobalLimit

\* the request paths of the model: an AI edit, and a route without a limit
\* of its own
Paths == { EditPattern \o <<"/", "1">>, <<"/", "p", "h", "o", "t", "o", "s">> }

\* f"USER#{user_id}" or f"IP#{ip_address}"
Identifiers == {"IP#1.2.3.4"}

\* int(current_time / window_seconds) * window_seconds
WindowStart(t) == (t \div window_seconds) * window_seconds

\* the key of the counter of an identifier and an endpoint in the window of t
RequestKey(identifier, endpoint, t) == <<identifier, endpoint, WindowStart(t)>>

\* check_rate_limit that denies the request when the counter cannot be read
check_rate_limit_closed(identifier, endpoint, get_item_ok) ==
    LET limit == get_rate_limit(endpoint)
        key == RequestKey(identifier, endpoint, now)
        current_count == IF key \in DOMAIN rate_limit_table
                         THEN rate_limit_table[key] ELSE 0
    IN  IF ~get_item_ok
        THEN [allowed |-> FALSE, current_count |-> 0, limit |-> limit]
        ELSE IF key \in DOMAIN rate_limit_table /\ current_count >= limit
        THEN [allowed |-> FALSE, current_count |-> current_count, limit |-> limit]
        ELSE [allowed |-> TRUE, current_count |-> current_count, limit |-> limit]

\* check_rate_limit: the counter of the current window is read; the request
\* is denied when the item exists and its count has reached the limit, and
\* allowed when the read fails
check_rate_limit(identifier, endpoint, get_item_ok) ==
    LET limit == get_rate_limit(endpoint)
        key == RequestKey(identifier, endpoint, now)
        current_count == IF key \in DOMAIN rate_limit_table
                         THEN rate_limit_table[key] ELSE 0
    IN  IF ~get_item_ok
        THEN [allowed |-> TRUE, current_count |-> 0, limit |-> limit]
        ELSE IF key \in DOMAIN rate_limit_table /\ current_count >= limit
        THEN [allowed |-> FALSE, current_count |-> current_count, limit |-> limit]
        ELSE [allowed |-> TRUE, current_count |-> current_count, limit |-> limit]

\* detect_abuse
detect_abuse(request_count, endpoint) ==
    LET by_count == IF request_count >= ExtremeRate THEN "CRITICAL"
                    ELSE IF request_count >= CRITICAL_THRESHOLD THEN "HIGH"
                    ELSE IF request_count >= ElevatedRate THEN "MEDIUM"
                    ELSE "LOW"
        severity == IF /\ request_count > get_rate_limit(endpoint) * 2
                       /\ by_count \in {"LOW", "MEDIUM"}
                    THEN "HIGH" ELSE by_count
    IN  IF request_count < GlobalLimit
        THEN [is_abuse |-> FALSE, severity |-> "NONE", should_block |-> FALSE]
        ELSE [is_abuse |-> TRUE, severity |-> severity,
              should_block |-> severity \in {"HIGH", "CRITICAL"}]

\* the timestamps of the cooldown entries of an identifier
CooldownTimes(identifier) ==
    { k[3] : k \in { x \in DOMAIN abuse_table :
                         x[1] = "NOTIFICATION#" /\ x[2] = identifier } }

\* the largest member of a non-empty set of numbers
Latest(times) == CHOOSE t \in times : \A u \in times : u <= t

\* should_send_notification: no, when the most recent cooldown entry is less
\* than 900 seconds old; yes otherwise, also when the query fails
should_send_notification(identifier, query_ok) ==
    IF /\ query_ok
       /\ CooldownTimes(identifier) # {}
       /\ now - Latest(CooldownTimes(identifier)) < NOTIFICATION_COOLDOWN_SECONDS
    THEN [should_send |-> FALSE]
    ELSE [should_send |-> TRUE]

\* an invocation of lambda_handler that has not received its request
IdleHandler ==
    [pc |-> "idle", identifier |-> "none", path |-> <<>>,
     rate_check |-> [allowed |-> TRUE, current_count |-> 0, limit |-> 0],
     abuse_info |-> [is_abuse |-> FALSE, severity |-> "none", should_block |-> FALSE],
     response |-> "none", failed |-> {}]

\* the state of the duplicate detector, which the handler does not touch
engine == <<table, pc, op, photos, photo_hashes, idx, aidx, duplicate_groups,
            processed, matches, new_hashes, result, fetched, call, ret, other,
            interleaved>>

\* the counters a window can hold when the first request of the model
\* arrives: none, or one counter one below its limit or at its limit
InitialCounters ==
    {<<>>} \cup
    UNION { { [k \in {RequestKey(i, p, 0)} |-> c] :
                  c \in {get_rate_limit(p) - 1, get_rate_limit(p)} }
            : i \in Identifiers, p \in Paths }

RateInit ==
    /\ table = [a \in 1..Len(AlbumIds) |-> <<>>]
    /\ Idle
    /\ call = NoCall
    /\ ret = NoReturn
    /\ other = Nobody
    /\ interleaved = FALSE
    /\ now = 0
    /\ ticks = 0
    /\ rate_limit_table \in InitialCounters
    /\ abuse_table = <<>>
    /\ handler = [h \in 1..MaxHandlers |-> IdleHandler]
    /\ sent = {}

\* the number of collaborator calls that have failed
Faults ==
    Cardinality(UNION { { <<h, f>> : f \in handler[h].failed }
                        : h \in DOMAIN handler })

\* a call may succeed; it may fail while the model has failures left
Outcomes(failures) ==
    {"ok"} \cup (IF Faults < MaxFaults THEN failures ELSE {})

\* lines 636-647: the request arrives and check_rate_limit reads the counter;
\* the invocations are numbered in the order in which their requests arrive
Check(h, identifier, path, outcome) ==
    /\ handler[h].pc = "idle"
    /\ h > 1 => handler[h - 1].pc # "idle"
    /\ outcome \in Outcomes({"get_item"})
    /\ LET rate_check == check_rate_limit(identifier, path, outcome = "ok")
       IN  handler' = [handler EXCEPT
               ![h].identifier = identifier,
               ![h].path = path,
               ![h].rate_check = rate_check,
               ![h].failed = IF outcome = "ok" THEN {} ELSE {outcome},
               ![h].pc = IF rate_check.allowed THEN "record" ELSE "abuse"]
    /\ UNCHANGED <<now, ticks, rate_limit_table, abuse_table, sent>>
    /\ UNCHANGED engine

\* lines 679-685 and the routes: record_request increments the counter of the
\* current window (unless the update fails), then writes the metadata; the
\* request is routed whatever record_request returns
Record(h, outcome) ==
    /\ handler[h].pc = "record"
    /\ outcome \in Outcomes({"update_item", "update_item_metadata"})
    /\ LET key == RequestKey(handler[h].identifier, handler[h].path, now)
           count == IF key \in DOMAIN rate_limit_table
                    THEN rate_limit_table[key] ELSE 0
       IN  rate_limit_table' =
               IF outcome = "update_item" THEN rate_limit_table
               ELSE Put(rate_limit_table, key, count + 1)
    /\ handler' = [handler EXCEPT
           ![h].failed = IF outcome = "ok" THEN @ ELSE @ \cup {outcome},
           ![h].response = "routed",
           ![h].pc = "done"]
    /\ UNCHANGED <<now, ticks, abuse_table, sent>>
    /\ UNCHANGED engine

\* lines 649-658: detect_abuse classifies the count that was read,
\* record_abuse_event puts the event and then the cooldown entry, both with
\* the current time (a failing put ends record_abuse_event), and
\* publish_cloudwatch_metrics sends its metrics; both keep their failures to
\* themselves
RecordAbuse(h, outcome, metrics) ==
    /\ handler[h].pc = "abuse"
    /\ outcome \in Outcomes({"put_item_event", "put_item_cooldown"})
    /\ metrics \in Outcomes({"put_metric_data"})
    /\ (outcome # "ok" /\ metrics # "ok") => Faults + 2 <= MaxFaults
    /\ LET identifier == handler[h].identifier
           abuse_info == detect_abuse(handler[h].rate_check.current_count,
                                      handler[h].path)
           event == [abuseType |-> "rate_limit_violation",
                     severity |-> abuse_info.severity]
           cooldown == [abuseType |-> "notification_cooldown",
                        severity |-> abuse_info.severity]
           with_event == Put(abuse_table, <<"", identifier, now>>, event)
       IN  /\ abuse_table' =
                 IF outcome = "put_item_event" THEN abuse_table
                 ELSE IF outcome = "put_item_cooldown" THEN with_event
                 ELSE Put(with_event, <<"NOTIFICATION#", identifier, now>>, cooldown)
           /\ handler' = [handler EXCEPT
                  ![h].abuse_info = abuse_info,
                  ![h].failed = @ \cup ({outcome, metrics} \ {"ok"}),
                  ![h].pc = "notify"]
    /\ UNCHANGED <<now, ticks, rate_limit_table, sent>>
    /\ UNCHANGED engine

\* lines 661-677: should_send_notification queries the cooldown entries,
\* send_notifications is called when it says so, and the request is answered
\* 429
Notify(h, outcome) ==
    /\ handler[h].pc = "notify"
    /\ outcome \in Outcomes({"query"})
    /\ LET notification_check ==
               should_send_notification(handler[h].identifier, outcome = "ok")
       IN  sent' = IF notification_check.should_send
                   THEN sent \cup { [identifier |-> handler[h].identifier,
                                     severity |-> handler[h].abuse_info.severity,
                                     at |-> now, by |-> h] }
                   ELSE sent
    /\ handler' = [handler EXCEPT
           ![h].failed = IF outcome = "ok" THEN @ ELSE @ \cup {outcome},
           ![h].response = "429",
           ![h].pc = "done"]
    /\ UNCHANGED <<now, ticks, rate_limit_table, abuse_table>>
    /\ UNCHANGED engine

\* some invocation is between its first and its last call
InFlight == \E h \in DOMAIN handler : handler[h].pc \notin {"idle", "done"}

\* time passes: one window at any moment, a whole cooldown period only
\* between invocations (no invocation lasts that long)
Tick(d) ==
    /\ ticks < MaxTicks
    /\ d = NOTIFICATION_COOLDOWN_SECONDS => ~InFlight
    /\ now' = now + d
    /\ ticks' = ticks + 1
    /\ UNCHANGED <<rate_limit_table, abuse_table, handler, sent>>
    /\ UNCHANGED engine

RateNext ==
    \/ \E h \in 1..MaxHandlers : \E identifier \in Identifiers : \E path \in Paths :
           \E outcome \in {"ok", "get_item"} : Check(h, identifier, path, outcome)
    \/ \E h \in 1..MaxHandlers :
           \E outcome \in {"ok", "update_item", "update_item_metadata"} : Record(h, outcome)
    \/ \E h \in 1..MaxHandlers :
           \E outcome \in {"ok", "put_item_event", "put_item_cooldown"} :
               \E metrics \in {"ok", "put_metric_data"} : RecordAbuse(h, outcome, metrics)
    \/ \E h \in 1..MaxHandlers : \E outcome \in {"ok", "query"} : Notify(h, outcome)
    \/ \E d \in {window_seconds, NOTIFICATION_COOLDOWN_SECONDS} : Tick(d)

RateSpec == RateInit /\ [][RateNext]_vars

---------------------------------------------------------------------------
(* C27 *)

\* C27: while no call to the tables fails, the counter of an identifier, a
\* path and a window never exceeds the limit of the path: no more requests
\* than the limit pass check_rate_limit and are recorded by record_request.
C27_WithinLimit ==
    Faults = 0 =>
        \A key \in DOMAIN rate_limit_table :
            rate_limit_table[key] <= get_rate_limit(key[2])

---------------------------------------------------------------------------
(* C28 *)

\* the request of invocation h has been answered 429
Denied(h) == handler[h].pc = "done" /\ handler[h].response = "429"

\* send_notifications was called for the request of invocation h
NotifiedFor(h) == \E s \in sent : s.by = h

\* C28: while no call to the tables fails, a request denied with 429 for an
\* identifier for which no other request caused a notification has caused
\* one, and two notifications for one identifier are at least 900 seconds
\* apart.
C28_NotifiedOnceInCooldown ==
    Faults = 0 =>
        /\ \A h \in DOMAIN handler :
               (/\ Denied(h)
                /\ \A s \in sent : s.identifier = handler[h].identifier => s.by = h)
               => NotifiedFor(h)
        /\ \A s, t \in sent :
               (s # t /\ s.identifier = t.identifier /\ s.at <= t.at)
               => t.at - s.at >= 900

---------------------------------------------------------------------------
(* C29 *)

Severities == {"LOW", "MEDIUM", "HIGH", "CRITICAL"}

\* C29: every request denied with 429 was classified as abuse with a
\* severity among LOW, MEDIUM, HIGH and CRITICAL, and no recorded abuse event
\* and no notification carries another severity.
C29_DeniedIsAbuse ==
    /\ \A h \in DOMAIN handler :
           Denied(h) => /\ handler[h].abuse_info.is_abuse
                        /\ handler[h].abuse_info.severity \in Severities
    /\ \A key \in DOMAIN abuse_table : abuse_table[key].severity \in Severities
    /\ \A s \in sent : s.severity \in Severities

---------------------------------------------------------------------------
(* C30 *)

\* the failures of the calls that read the counter, increment it, record an
\* abuse event or publish metrics
LimiterFailures ==
    {"get_item", "update_item", "update_item_metadata", "put_item_event",
     "put_item_cooldown", "put_metric_data"}

\* C30 (as amended): a request is answered 429 only when its counter was read
\* and had reached the limit of its path; a request whose counter could not
\* be read or incremented is routed, and a failure to record the abuse event
\* or to publish the metrics of a request over its limit leaves the 429 in
\* place.
C30_FailsOpen ==
    \A h \in DOMAIN handler :
        handler[h].pc = "done" =>
            /\ handler[h].response \in {"routed", "429"}
            /\ handler[h].response = "429" =>
                   /\ "get_item" \notin handler[h].failed
                   /\ handler[h].rate_check.current_count
                          >= get_rate_limit(handler[h].path)
            /\ handler[h].failed \cap {"get_item", "update_item", "update_item_metadata"} # {}
                   => handler[h].response = "routed"
            /\ (/\ "get_item" \notin handler[h].failed
                /\ handler[h].rate_check.current_count
                       >= get_rate_limit(handler[h].path))
                   => handler[h].response = "429"

\* a request was routed although the counter of its window had reached the
\* limit, because the counter could not be read
C30_Witness ==
    \E h \in DOMAIN handler :
        /\ handler[h].pc = "done"
        /\ handler[h].response = "routed"
        /\ "get_item" \in handler[h].failed
        /\ LET key == RequestKey(handler[h].identifier, handler[h].path, now)
           IN  /\ key \in DOMAIN rate_limit_table
               /\ rate_limit_table[key] > get_rate_limit(handler[h].path)

\* C30 (as stated): whenever reading the counter, incrementing it, recording
\* an abuse event or publishing metrics failed for a request, the handler
\* went on to route it.
C30_FailureMeansRouted ==
    \A h \in DOMAIN handler :
        (handler[h].pc = "done" /\ handler[h].failed \cap LimiterFailures # {})
        => handler[h].response = "routed"

====
